---- MODULE Spec2Model ----
(***************************************************************************)
(* Per-thread state layer of the ChatKit card/deck assistant backend:      *)
(* DeckStateManager and CardSearchStateManager, the tools that use them,   *)
(* the select_deck widget action and the GET /api/deck-state endpoint.     *)
(* Every coroutine is cut at its remote call (the await of an httpx        *)
(* request): the code before the await is one action, the code after it a  *)
(* second one, and other requests may run in between.                      *)
(***************************************************************************)
EXTENDS Integers, Sequences, FiniteSets, TLC

(* ------------------------------ bounds --------------------------------- *)
NumThreads == 2
MaxDeckId == 1
MaxTasks == 2
MaxCards == 2
MaxDecks == 12

Threads == 1..NumThreads
DeckIds == 0..MaxDeckId
DeckNames == {"", "Mill Deck"}
Slots == 1..MaxTasks

(* ------------------------- Python's None values ------------------------ *)
NoneId == -1
NoneName == "<None>"
NoneContents == [none |-> TRUE]
NoneError == "<None>"
NoneQuery == "<None>"
NoneCard == [none |-> TRUE]

(* Python truthiness of the values the code tests with `if x` / `not x`.   *)
TruthyId(v) == v # NoneId /\ v # 0
TruthyName(n) == n # NoneName /\ n # ""
TruthyContents(c) == c # NoneContents

(* ------------------------------ DeckState ------------------------------ *)
DefaultDeckState ==
  [active_deck_id |-> NoneId, active_deck_name |-> NoneName,
   deck_contents |-> NoneContents]

(* Mutant: contents are kept when the deck id does not change.             *)
DeckState_set_active_deck_KeepsSameDeck(s, deck_id, deck_name) ==
  [s EXCEPT !.active_deck_id = deck_id,
            !.active_deck_name = deck_name,
            !.deck_contents = IF s.active_deck_id = deck_id
                              THEN s.deck_contents ELSE NoneContents]

DeckState_set_active_deck(s, deck_id, deck_name) ==
  [s EXCEPT !.active_deck_id = deck_id,
            !.active_deck_name = deck_name,
            !.deck_contents = NoneContents]

(* Mutant: the name is not reset.                                          *)
DeckState_clear_active_deck_KeepsName(s) ==
  [s EXCEPT !.active_deck_id = NoneId,
            !.deck_contents = NoneContents]

DeckState_clear_active_deck(s) ==
  [s EXCEPT !.active_deck_id = NoneId,
            !.active_deck_name = NoneName,
            !.deck_contents = NoneContents]

DeckState_has_active_deck(s) == s.active_deck_id # NoneId

(* --------------------------- DeckStateManager -------------------------- *)
(* get_state: get or create.  The manager's map after the call.            *)
DeckStateManager_get_state(states, t) ==
  IF t \in DOMAIN states THEN states ELSE states @@ (t :> DefaultDeckState)

(* Mutant: the change is made on a record the map does not hold.           *)
DeckStateManager_set_active_deck_Unstored(states, t, deck_id, deck_name) ==
  DeckStateManager_get_state(states, t)

(* Mutant: one record shared by all threads, as a class-level default      *)
(* would be: the change shows on every thread that has a record.           *)
DeckStateManager_set_active_deck_SharedRecord(states, t, deck_id, deck_name) ==
  LET m == DeckStateManager_get_state(states, t)
  IN  [u \in DOMAIN m |-> DeckState_set_active_deck(m[u], deck_id, deck_name)]

DeckStateManager_set_active_deck(states, t, deck_id, deck_name) ==
  LET m == DeckStateManager_get_state(states, t)
  IN  [m EXCEPT ![t] = DeckState_set_active_deck(m[t], deck_id, deck_name)]

DeckStateManager_clear_active_deck(states, t) ==
  LET m == DeckStateManager_get_state(states, t)
  IN  [m EXCEPT ![t] = DeckState_clear_active_deck(m[t])]

(* Mutant: the contents are put into a to_dict copy, not into the record.  *)
CacheDeckContents_OnCopy(states, t, contents) ==
  DeckStateManager_get_state(states, t)

(* `deck_state.deck_contents = contents` on the record get_state returns.  *)
CacheDeckContents(states, t, contents) ==
  LET m == DeckStateManager_get_state(states, t)
  IN  [m EXCEPT ![t].deck_contents = contents]

(* The confirmation string set_active_deck returns, by its two parameters. *)
SetConfirmation(deck_id, deck_name) ==
  [kind |-> "active_deck_set", deck_id |-> deck_id, deck_name |-> deck_name]

(* ---------------------------- remote deck API -------------------------- *)
RemoteOutcomes == {"ok", "fail"}

(* fetch_deck_contents: the snapshot for deck_id, or the empty snapshot    *)
(* carrying the error when the request raised.                             *)
fetch_deck_contents(deck_id, outcome) ==
  IF outcome = "ok"
  THEN [deck_id |-> deck_id, body |-> "data", error |-> NoneError]
  ELSE [deck_id |-> deck_id, body |-> "empty", error |-> "Error loading deck"]

(* fetch_user_decks: what the deck API answers is the request raising      *)
(* (transport failure, timeout, raise_for_status on a non-2xx status) or a *)
(* JSON body with n decks.  The first deck of the account has no name.     *)
UserDeckResponses ==
  {[transport |-> "fail", n |-> 0]}
  \cup {[transport |-> "ok", n |-> k] : k \in 0..MaxDecks}

RemoteDeck(i) == [id |-> i - 1, name |-> IF i = 1 THEN "" ELSE "Mill Deck"]

(* Mutant: without the except block's result, a failed request looks like  *)
(* an account without decks.                                               *)
fetch_user_decks_ErrorDropped(response) ==
  [decks |-> [i \in 1..response.n |-> RemoteDeck(i)], count |-> response.n,
   error |-> NoneError]

fetch_user_decks(response) ==
  IF response.transport = "ok"
  THEN [decks |-> [i \in 1..response.n |-> RemoteDeck(i)], count |-> response.n,
        error |-> NoneError]
  ELSE [decks |-> <<>>, count |-> 0, error |-> "Error fetching deck lists"]

(* ---------------------------- deck list widget ------------------------- *)
(* Mutant: the active deck id is not compared, no row is highlighted.      *)
serialize_deck_NeverActive(deck, active_deck_id) ==
  [id |-> deck.id,
   name |-> IF deck.name = "" THEN "Unnamed Deck #" ELSE deck.name,
   is_favorite |-> FALSE,
   is_active |-> FALSE]

serialize_deck(deck, active_deck_id) ==
  [id |-> deck.id,
   name |-> IF deck.name = "" THEN "Unnamed Deck #" ELSE deck.name,
   is_favorite |-> FALSE,
   is_active |-> IF active_deck_id # NoneId THEN deck.id = active_deck_id ELSE FALSE]

(* Mutant: only the first ten decks are rendered.                          *)
build_deck_list_widget_FirstTen(decks, count, active_deck_id, active_deck_name) ==
  [decks |-> {serialize_deck(decks[i], active_deck_id) :
                i \in {j \in 1..Len(decks) : j <= 10}},
   count |-> count,
   active_deck_id |-> active_deck_id,
   active_deck_name |-> active_deck_name]

(* The widget's payload.  Its rows are kept as a set: the order the caller *)
(* sorted them into is not part of the model.                              *)
build_deck_list_widget(decks, count, active_deck_id, active_deck_name) ==
  [decks |-> {serialize_deck(decks[i], active_deck_id) : i \in 1..Len(decks)},
   count |-> count,
   active_deck_id |-> active_deck_id,
   active_deck_name |-> active_deck_name]

(* ------------------------------ tool replies --------------------------- *)
(* An error reply is a prefix followed by a message: "Error: <message>" or *)
(* the cross mark emoji and the message.                                   *)
ErrorPrefix == "Error: "
CrossMark == "<cross mark> "
ErrorReply(prefix, message) == [kind |-> "error", prefix |-> prefix, error |-> message]

(* --------------------------- CardSearchState --------------------------- *)
(* dict.get(key, default) on a raw card dict.                              *)
CardGet(card, key, default) == IF key \in DOMAIN card THEN card[key] ELSE default

DefaultCardSearchState == [query |-> NoneQuery, results |-> <<>>]

(* Mutant: the new records are appended to the earlier ones.               *)
CardSearchState_set_results_Appends(s, query, cards) ==
  [s EXCEPT !.query = query,
            !.results = s.results \o
                        [p \in 1..Len(cards) |->
                           [index |-> (p - 1) + 1,
                            ability |-> CardGet(cards[p], "name", ""),
                            raw |-> CardGet(cards[p], "raw", "")]]]

(* Mutant: the records are replaced but the query is left as it was.       *)
CardSearchState_set_results_KeepsQuery(s, query, cards) ==
  [s EXCEPT !.results = [p \in 1..Len(cards) |->
                           [index |-> (p - 1) + 1,
                            ability |-> CardGet(cards[p], "name", ""),
                            raw |-> CardGet(cards[p], "raw", "")]]]

(* set_results: enumerate(cards) is 0-based and index = i + 1, so the      *)
(* record at (1-based) position p carries index p.                         *)
CardSearchState_set_results(s, query, cards) ==
  [s EXCEPT !.query = query,
            !.results = [p \in 1..Len(cards) |->
                           [index |-> (p - 1) + 1,
                            ability |-> CardGet(cards[p], "name", ""),
                            raw |-> CardGet(cards[p], "raw", "")]]]

(* Mutant: no lower bound, so results[index - 1] takes Python's negative   *)
(* indexes from the end of the list.                                       *)
CardSearchState_get_card_by_index_NoLowerBound(s, index) ==
  IF index <= Len(s.results)
  THEN IF 1 <= index THEN s.results[(index - 1) + 1]
       ELSE IF 1 <= Len(s.results) + index THEN s.results[Len(s.results) + index]
       ELSE [raised |-> "IndexError"]
  ELSE NoneCard

(* Mutant: the number is taken as a 0-based position.                      *)
CardSearchState_get_card_by_index_ZeroBased(s, index) ==
  IF 0 <= index /\ index < Len(s.results) THEN s.results[index + 1]
  ELSE NoneCard

(* get_card_by_index: results[index - 1] in 0-based Python.                *)
CardSearchState_get_card_by_index(s, index) ==
  IF 1 <= index /\ index <= Len(s.results) THEN s.results[(index - 1) + 1]
  ELSE NoneCard

CardSearchState_has_results(s) == Len(s.results) > 0

(* ------------------------ CardSearchStateManager ----------------------- *)
CardSearchStateManager_get_state(states, t) ==
  IF t \in DOMAIN states THEN states
  ELSE states @@ (t :> DefaultCardSearchState)

CardSearchStateManager_store_results(states, t, query, cards) ==
  LET m == CardSearchStateManager_get_state(states, t)
  IN  [m EXCEPT ![t] = CardSearchState_set_results(m[t], query, cards)]

CardSearchStateManager_get_card(states, t, index) ==
  CardSearchState_get_card_by_index(
    CardSearchStateManager_get_state(states, t)[t], index)

CardSearchStateManager_has_results(states, t) ==
  CardSearchState_has_results(CardSearchStateManager_get_state(states, t)[t])

(* --------------------------- remote card search ------------------------ *)
Queries == {"Luke", "Vader"}

(* The text between <li> and </li> as the endpoint sends it, and what      *)
(* re.sub(r"<.*?>", "", item).strip() leaves of it.                        *)
LiItems == {"  ", "<b>Luke Skywalker, Hero</b>", " Luke's X-wing "}

Clean(item) ==
  CASE item = "  " -> ""
    [] item = "<b>Luke Skywalker, Hero</b>" -> "Luke Skywalker, Hero"
    [] item = " Luke's X-wing " -> "Luke's X-wing"

RECURSIVE SeqsUpTo(_, _)
SeqsUpTo(S, n) ==
  IF n = 0 THEN {<<>>}
  ELSE LET shorter == SeqsUpTo(S, n - 1)
       IN  shorter \cup {Append(s, x) : s \in {q \in shorter : Len(q) = n - 1}, x \in S}

(* A response of the endpoint: the request raised ("fail"), or a page with *)
(* or without a <ul> block holding <li> items.                             *)
SearchResponses ==
  {[transport |-> "fail", ul |-> FALSE, items |-> <<>>],
   [transport |-> "ok", ul |-> FALSE, items |-> <<>>]}
  \cup {[transport |-> "ok", ul |-> TRUE, items |-> s] : s \in SeqsUpTo(LiItems, MaxCards)}

RECURSIVE ParseItems(_)
ParseItems(items) ==
  IF items = <<>> THEN <<>>
  ELSE LET cleaned == Clean(Head(items))
       IN  (IF cleaned # "" THEN <<[name |-> cleaned, raw |-> cleaned]>> ELSE <<>>)
           \o ParseItems(Tail(items))

(* Mutant: no except block result; a request that raised is reported as a  *)
(* page with one card and no error.                                        *)
search_cards_direct_NoErrorOnRaise(query, response) ==
  IF response.transport = "fail"
  THEN [query |-> query, cards |-> <<[name |-> "partial", raw |-> "partial"]>>,
        count |-> 1, error |-> NoneError]
  ELSE IF ~response.ul
  THEN [query |-> query, cards |-> <<>>, count |-> 0, error |-> NoneError]
  ELSE LET cards == ParseItems(response.items)
       IN  [query |-> query, cards |-> cards, count |-> Len(cards),
            error |-> NoneError]

search_cards_direct(query, response) ==
  IF response.transport = "fail"
  THEN [query |-> query, cards |-> <<>>, count |-> 0,
        error |-> "Error searching cards"]
  ELSE IF ~response.ul
  THEN [query |-> query, cards |-> <<>>, count |-> 0, error |-> NoneError]
  ELSE LET cards == ParseItems(response.items)
       IN  [query |-> query, cards |-> cards, count |-> Len(cards),
            error |-> NoneError]

(* ------------------------------- state --------------------------------- *)
VARIABLES
  request_context,  \* keys of the context dict the tools read their managers from
  deck_states,      \* DeckStateManager._states
  card_states,      \* CardSearchStateManager._states
  tasks,            \* coroutines suspended at a remote call, by slot
  last              \* history: the step taken last and what it returned

vars == <<request_context, deck_states, card_states, tasks, last>>

Idle == [op |-> "idle"]
NoResult == [kind |-> "none"]
NoPre == [none |-> TRUE]
Exception == [kind |-> "exception"]

InFlight(k) == tasks[k] # Idle
HasFreeSlot == \E k \in Slots : tasks[k] = Idle
FreeSlot == CHOOSE k \in Slots : tasks[k] = Idle /\ \A j \in 1..(k - 1) : tasks[j] # Idle

(* The deck record of t as a reader sees it without creating it.           *)
DeckOf(states, t) == IF t \in DOMAIN states THEN states[t] ELSE DefaultDeckState
CardsOf(states, t) == IF t \in DOMAIN states THEN states[t] ELSE DefaultCardSearchState

Suspend(op, t, args, pc, log) ==
  tasks' = [tasks EXCEPT ![FreeSlot] =
              [op |-> op, thread |-> t, args |-> args, pc |-> pc, log |-> log]]

(* The history of a step: the operation, what it did to the store, what  *)
(* it returned (NoResult while suspended) and, for a step that changed the *)
(* store, the thread's record before it.                                   *)
Step(op, t, args, did, result, log, pre) ==
  last' = [op |-> op, thread |-> t, args |-> args, did |-> did,
           result |-> result, log |-> log,
           pre |-> IF did = {} THEN NoPre ELSE pre]

(* ------------------------ set_active_deck_tool ------------------------- *)
(* Up to `await fetch_deck_contents(deck_id)`.                             *)
SetActiveDeckToolStart(t, deck_id, deck_name) ==
  LET args == [deck_id |-> deck_id, deck_name |-> deck_name]
  IN  IF "deck_manager" \notin request_context
      THEN /\ Step("set_active_deck_tool", t, args, {},
                   [kind |-> "error_no_deck_manager"], <<"return">>, NoPre)
           /\ tasks' = tasks
           /\ UNCHANGED <<request_context, deck_states, card_states>>
      ELSE /\ HasFreeSlot
           /\ deck_states' =
                DeckStateManager_set_active_deck(deck_states, t, deck_id, deck_name)
           /\ Suspend("set_active_deck_tool", t, args, "fetch_deck_contents",
                      <<"set_active_deck", "fetch_deck_contents">>)
           /\ Step("set_active_deck_tool", t, args, {"set_active_deck"}, NoResult,
                   <<"set_active_deck", "fetch_deck_contents">>,
                   DeckOf(deck_states, t))
           /\ UNCHANGED <<request_context, card_states>>

(* From the fetch's return to the tool's: cache the snapshot, stream the   *)
(* deck_refresh effect (which may raise; the tool has no try block), and   *)
(* return the confirmation.                                                *)
SetActiveDeckToolResume(k, outcome, stream) ==
  /\ InFlight(k)
  /\ tasks[k].op = "set_active_deck_tool"
  /\ LET task == tasks[k]
         t == task.thread
         contents == fetch_deck_contents(task.args.deck_id, outcome)
     IN  /\ deck_states' = CacheDeckContents(deck_states, t, contents)
         /\ tasks' = [tasks EXCEPT ![k] = Idle]
         /\ IF stream = "ok"
            THEN Step(task.op, t, task.args, {"cache_contents"},
                      SetConfirmation(task.args.deck_id, task.args.deck_name),
                      task.log \o <<"cache_contents", "deck_refresh", "return">>, DeckOf(deck_states, t))
            ELSE Step(task.op, t, task.args, {"cache_contents"}, Exception,
                      task.log \o <<"cache_contents", "raise">>, DeckOf(deck_states, t))
  /\ UNCHANGED <<request_context, card_states>>

(* ------------------------- get_active_deck_tool ------------------------ *)
GetActiveDeckTool(t) ==
  /\ IF "deck_manager" \notin request_context
     THEN /\ Step("get_active_deck_tool", t, [none |-> TRUE], {},
                  [kind |-> "error_no_deck_manager"], <<"return">>, NoPre)
          /\ UNCHANGED deck_states
     ELSE LET m == DeckStateManager_get_state(deck_states, t)
              deck_id == m[t].active_deck_id
              deck_name == m[t].active_deck_name
          IN  /\ deck_states' = m
              /\ Step("get_active_deck_tool", t, [none |-> TRUE], {},
                      IF deck_id = NoneId THEN [kind |-> "no_active_deck"]
                      ELSE [kind |-> "active_deck", deck_id |-> deck_id,
                            deck_name |-> deck_name],
                      <<"return">>, DeckOf(deck_states, t))
  /\ tasks' = tasks
  /\ UNCHANGED <<request_context, card_states>>

(* ------------------------ load_deck_contents_tool ---------------------- *)
(* deck_id = NoneId is the call without a deck id.                         *)
LoadDeckContentsToolStart(t, deck_id) ==
  LET args == [deck_id |-> deck_id]
      m == DeckStateManager_get_state(deck_states, t)
      active_id == m[t].active_deck_id
      lookup == deck_id = NoneId /\ "deck_manager" \in request_context
      resolved == IF deck_id # NoneId THEN deck_id
                  ELSE IF lookup /\ TruthyId(active_id) THEN active_id
                  ELSE NoneId
  IN  /\ deck_states' = IF lookup THEN m ELSE deck_states
      /\ IF resolved = NoneId
         THEN /\ Step("load_deck_contents_tool", t, args, {},
                      IF lookup THEN [kind |-> "no_active_deck_set"]
                      ELSE [kind |-> "no_deck_id"],
                      <<"return">>, DeckOf(deck_states, t))
              /\ tasks' = tasks
         ELSE /\ HasFreeSlot
              /\ Suspend("load_deck_contents_tool", t, [deck_id |-> resolved],
                         "fetch_deck_contents", <<"fetch_deck_contents">>)
              /\ Step("load_deck_contents_tool", t, args, {}, NoResult,
                      <<"fetch_deck_contents">>, DeckOf(deck_states, t))
      /\ UNCHANGED <<request_context, card_states>>

LoadDeckContentsToolResume(k, outcome) ==
  /\ InFlight(k)
  /\ tasks[k].op = "load_deck_contents_tool"
  /\ LET task == tasks[k]
         t == task.thread
         result == fetch_deck_contents(task.args.deck_id, outcome)
     IN  /\ tasks' = [tasks EXCEPT ![k] = Idle]
         /\ IF result.error # NoneError
            THEN /\ Step(task.op, t, task.args, {},
                         ErrorReply(CrossMark, result.error),
                         task.log \o <<"return">>, DeckOf(deck_states, t))
                 /\ UNCHANGED deck_states
            ELSE IF "deck_manager" \in request_context
            THEN /\ deck_states' = CacheDeckContents(deck_states, t, result)
                 /\ Step(task.op, t, task.args, {"cache_contents"},
                         [kind |-> "deck_summary", deck_id |-> task.args.deck_id],
                         task.log \o <<"cache_contents", "return">>, DeckOf(deck_states, t))
            ELSE /\ Step(task.op, t, task.args, {},
                         [kind |-> "deck_summary", deck_id |-> task.args.deck_id],
                         task.log \o <<"return">>, DeckOf(deck_states, t))
                 /\ UNCHANGED deck_states
  /\ UNCHANGED <<request_context, card_states>>

(* ------------------- GET /api/deck-state/{thread_id} ------------------- *)
(* to_dict copies the three fields; the copy is what the response is       *)
(* built from after the fetch.                                             *)
GetDeckStateStart(t) ==
  LET m == DeckStateManager_get_state(deck_states, t)
      state == m[t]
      deck_id == state.active_deck_id
  IN  /\ deck_states' = m
      /\ IF TruthyId(deck_id) /\ ~TruthyContents(state.deck_contents)
         THEN /\ HasFreeSlot
              /\ Suspend("get_deck_state", t, state, "fetch_deck_contents",
                         <<"to_dict", "fetch_deck_contents">>)
              /\ Step("get_deck_state", t, state, {}, NoResult,
                      <<"to_dict", "fetch_deck_contents">>,
                      DeckOf(deck_states, t))
         ELSE /\ tasks' = tasks
              /\ Step("get_deck_state", t, state, {},
                      [kind |-> "deck_state", state |-> state],
                      <<"to_dict", "return">>, DeckOf(deck_states, t))
      /\ UNCHANGED <<request_context, card_states>>

GetDeckStateResume(k, outcome) ==
  /\ InFlight(k)
  /\ tasks[k].op = "get_deck_state"
  /\ LET task == tasks[k]
         t == task.thread
         state == task.args
         contents == fetch_deck_contents(state.active_deck_id, outcome)
     IN  /\ deck_states' = CacheDeckContents(deck_states, t, contents)
         /\ tasks' = [tasks EXCEPT ![k] = Idle]
         /\ Step(task.op, t, task.args, {"cache_contents"},
                 [kind |-> "deck_state",
                  state |-> [state EXCEPT !.deck_contents = contents]],
                 task.log \o <<"cache_contents", "return">>,
                 DeckOf(deck_states, t))
  /\ UNCHANGED <<request_context, card_states>>

(* --------------- StarterChatServer._handle_select_deck_action ---------- *)
(* The payload's deck_id / deck_name are NoneId / NoneName when the key is *)
(* missing (payload.get).  sender is whether a sender widget came along.   *)
PayloadIds == DeckIds \cup {NoneId}
PayloadNames == DeckNames \cup {NoneName}
DeckListOutcomes == {"decks", "empty", "fail"}

(* The deck API's answer behind each outcome: a list with one deck per     *)
(* deck id, an empty list, or a failed request.                            *)
DeckListResponse(o) ==
  CASE o = "decks" -> [transport |-> "ok", n |-> MaxDeckId + 1]
    [] o = "empty" -> [transport |-> "ok", n |-> 0]
    [] o = "fail" -> [transport |-> "fail", n |-> 0]

(* The id of the widget item the action was sent from; model_copy keeps it *)
(* in the item the replace event carries.                                  *)
SenderItem == "sender_widget_item"

SelectDeckActionStart(t, deck_id, deck_name, sender) ==
  LET args == [deck_id |-> deck_id, deck_name |-> deck_name, sender |-> sender]
  IN  IF ~TruthyId(deck_id) \/ ~TruthyName(deck_name)
      THEN /\ Step("select_deck", t, args, {},
                   [kind |-> "events",
                    events |-> <<[type |-> "message", text |-> "missing information"]>>],
                   <<"error_message", "return">>, DeckOf(deck_states, t))
           /\ tasks' = tasks
           /\ UNCHANGED <<request_context, deck_states, card_states>>
      ELSE /\ HasFreeSlot
           /\ deck_states' =
                DeckStateManager_set_active_deck(deck_states, t, deck_id, deck_name)
           /\ Suspend("select_deck", t, args, "fetch_user_decks",
                      <<"set_active_deck", "fetch_user_decks">>)
           /\ Step("select_deck", t, args, {"set_active_deck"}, NoResult,
                   <<"set_active_deck", "fetch_user_decks">>,
                   DeckOf(deck_states, t))
           /\ UNCHANGED <<request_context, card_states>>

(* After fetch_user_decks: replace the sender widget when there are decks  *)
(* and a sender, then always the confirmation message.                     *)
SelectDeckActionResume(k, decks) ==
  /\ InFlight(k)
  /\ tasks[k].op = "select_deck"
  /\ LET task == tasks[k]
         t == task.thread
         m == DeckStateManager_get_state(deck_states, t)
         deck_result == fetch_user_decks(DeckListResponse(decks))
         replace == deck_result.decks # <<>> /\ task.args.sender
         confirmation ==
           [type |-> "message",
            text |-> SetConfirmation(task.args.deck_id, task.args.deck_name)]
     IN  /\ deck_states' = IF replace THEN m ELSE deck_states
         /\ tasks' = [tasks EXCEPT ![k] = Idle]
         /\ Step(task.op, t,
                 [deck_id |-> task.args.deck_id, deck_name |-> task.args.deck_name,
                  sender |-> task.args.sender, decks |-> decks], {},
                 [kind |-> "events",
                  events |->
                    (IF replace
                     THEN <<[type |-> "replaced", item |-> SenderItem,
                             widget |-> build_deck_list_widget(
                                          deck_result.decks, deck_result.count,
                                          m[t].active_deck_id,
                                          m[t].active_deck_name)]>>
                     ELSE <<>>) \o <<confirmation>>],
                 task.log \o (IF replace THEN <<"replaced">> ELSE <<>>)
                          \o <<"message", "return">>, DeckOf(deck_states, t))
  /\ UNCHANGED <<request_context, card_states>>

(* -------------------------- get_user_decks_tool ------------------------ *)
GetUserDecksToolStart(t) ==
  /\ HasFreeSlot
  /\ Suspend("get_user_decks_tool", t, [none |-> TRUE], "fetch_user_decks",
             <<"fetch_user_decks">>)
  /\ Step("get_user_decks_tool", t, [none |-> TRUE], {}, NoResult,
          <<"fetch_user_decks">>, NoPre)
  /\ UNCHANGED <<request_context, deck_states, card_states>>

(* The reply is the one line "Found <count> deck list(s)."; the decks go   *)
(* into the widget and the copy text handed to stream_widget.  The tool's  *)
(* try block turns a raise of stream_widget into an "Error: ..." reply.    *)
GetUserDecksToolResume(k, response, stream) ==
  /\ InFlight(k)
  /\ tasks[k].op = "get_user_decks_tool"
  /\ LET task == tasks[k]
         t == task.thread
         result == fetch_user_decks(response)
         args == [transport |-> response.transport, n |-> response.n]
     IN  /\ tasks' = [tasks EXCEPT ![k] = Idle]
         /\ IF result.error # NoneError
            THEN Step(task.op, t, args, {}, ErrorReply(ErrorPrefix, result.error),
                      task.log \o <<"return">>, NoPre)
            ELSE IF result.decks = <<>>
            THEN Step(task.op, t, args, {}, [kind |-> "no_decks"],
                      task.log \o <<"return">>, NoPre)
            ELSE IF stream = "ok"
            THEN Step(task.op, t, args, {},
                      [kind |-> "found_decks",
                       lines |-> <<[type |-> "found", count |-> result.count]>>,
                       widget |-> build_deck_list_widget(
                                    result.decks, result.count, NoneId, NoneName),
                       copy_text |-> [i \in 1..Len(result.decks) |->
                                        IF result.decks[i].name # ""
                                        THEN result.decks[i].name ELSE "Deck"]],
                      task.log \o <<"stream_widget", "return">>, NoPre)
            ELSE Step(task.op, t, args, {}, ErrorReply(ErrorPrefix, "exception"),
                      task.log \o <<"stream_widget", "return">>, NoPre)
  /\ UNCHANGED <<request_context, deck_states, card_states>>

(* ------------- DeckStateManager called directly (no tool) -------------- *)
ManagerSetActiveDeck(t, deck_id, deck_name) ==
  /\ deck_states' =
       DeckStateManager_set_active_deck(deck_states, t, deck_id, deck_name)
  /\ tasks' = tasks
  /\ Step("set_active_deck", t, [deck_id |-> deck_id, deck_name |-> deck_name],
          {"set_active_deck"}, SetConfirmation(deck_id, deck_name),
          <<"set_active_deck", "return">>, DeckOf(deck_states, t))
  /\ UNCHANGED <<request_context, card_states>>

ManagerClearActiveDeck(t) ==
  LET old_name == DeckStateManager_get_state(deck_states, t)[t].active_deck_name
  IN  /\ deck_states' = DeckStateManager_clear_active_deck(deck_states, t)
      /\ tasks' = tasks
      /\ Step("clear_active_deck", t, [none |-> TRUE], {"clear_active_deck"},
              IF TruthyName(old_name)
              THEN [kind |-> "cleared", deck_name |-> old_name]
              ELSE [kind |-> "no_active_deck_was_set"],
              <<"clear_active_deck", "return">>, DeckOf(deck_states, t))
      /\ UNCHANGED <<request_context, card_states>>

(* --------------------------- search_cards_tool ------------------------- *)
(* The tool awaits search_cards_direct before it touches anything.         *)
SearchCardsToolStart(t, query) ==
  /\ HasFreeSlot
  /\ Suspend("search_cards_tool", t, [query |-> query], "search_cards_direct",
             <<"search_cards_direct">>)
  /\ Step("search_cards_tool", t, [query |-> query], {}, NoResult,
          <<"search_cards_direct">>, CardsOf(card_states, t))
  /\ UNCHANGED <<request_context, deck_states, card_states>>

(* What the history keeps of a finished search: the query, the cards       *)
(* search_cards_direct returned and whether the request raised.            *)
SearchArgs(query, result, response) ==
  [query |-> query, cards |-> result.cards, transport |-> response.transport]

(* stream is the outcome of stream_widget; the tool's try block turns a    *)
(* raise into an "Error: ..." reply.                                       *)
SearchCardsToolResume(k, response, stream) ==
  /\ InFlight(k)
  /\ tasks[k].op = "search_cards_tool"
  /\ LET task == tasks[k]
         t == task.thread
         query == task.args.query
         result == search_cards_direct(query, response)
         store == "card_search_manager" \in request_context
     IN  /\ tasks' = [tasks EXCEPT ![k] = Idle]
         /\ IF result.error # NoneError
            THEN /\ Step(task.op, t, SearchArgs(query, result, response), {},
                         [kind |-> "error", error |-> result.error],
                         task.log \o <<"return">>, CardsOf(card_states, t))
                 /\ UNCHANGED card_states
            ELSE IF result.cards = <<>>
            THEN /\ Step(task.op, t, SearchArgs(query, result, response), {},
                         [kind |-> "no_cards_found", query |-> query],
                         task.log \o <<"return">>, CardsOf(card_states, t))
                 /\ UNCHANGED card_states
            ELSE /\ card_states' =
                      IF store
                      THEN CardSearchStateManager_store_results(
                             card_states, t, query, result.cards)
                      ELSE card_states
                 /\ Step(task.op, t, SearchArgs(query, result, response),
                         IF store THEN {"store_results"} ELSE {},
                         IF stream = "ok"
                         THEN [kind |-> "found", count |-> result.count,
                               query |-> query,
                               names |-> [p \in 1..Len(result.cards) |->
                                            CardGet(result.cards[p], "name", "Unknown")]]
                         ELSE [kind |-> "error", error |-> "exception"],
                         task.log \o (IF store THEN <<"store_results">> ELSE <<>>)
                                  \o <<"stream_widget", "return">>, CardsOf(card_states, t))
  /\ UNCHANGED <<request_context, deck_states>>

(* ----------------------- get_card_from_results_tool -------------------- *)
GetCardFromResultsTool(t, card_number) ==
  /\ tasks' = tasks
  /\ IF "card_search_manager" \notin request_context
     THEN /\ Step("get_card_from_results_tool", t, [card_number |-> card_number], {},
                  [kind |-> "no_card_search_manager"], <<"return">>, CardsOf(card_states, t))
          /\ UNCHANGED card_states
     ELSE LET m == CardSearchStateManager_get_state(card_states, t)
              card == CardSearchStateManager_get_card(m, t, card_number)
          IN  /\ card_states' = m
              /\ Step("get_card_from_results_tool", t,
                      [card_number |-> card_number], {},
                      IF ~CardSearchStateManager_has_results(m, t)
                      THEN [kind |-> "no_search_results"]
                      ELSE IF card = NoneCard
                      THEN [kind |-> "card_not_found", card_number |-> card_number,
                            count |-> Len(m[t].results)]
                      ELSE [kind |-> "card", index |-> card.index,
                            ability |-> card.ability],
                      <<"return">>, CardsOf(card_states, t))
  /\ UNCHANGED <<request_context, deck_states>>

(* ---------- CardSearchStateManager called directly (no tool) ----------- *)
(* Raw card dicts as a caller may pass them: with and without a name.      *)
CardDicts ==
  {[name |-> "Luke's X-wing", raw |-> "Luke's X-wing"],
   [raw |-> "Luke Skywalker, Jedi"]}
CardIndexes == (0 - 1)..(MaxCards + 1)

ManagerStoreResults(t, query, cards) ==
  /\ card_states' = CardSearchStateManager_store_results(card_states, t, query, cards)
  /\ tasks' = tasks
  /\ Step("store_results", t, [query |-> query, cards |-> cards],
          {"store_results"}, [kind |-> "stored"], <<"store_results", "return">>, CardsOf(card_states, t))
  /\ UNCHANGED <<request_context, deck_states>>

ManagerGetCard(t, index) ==
  /\ card_states' = CardSearchStateManager_get_state(card_states, t)
  /\ tasks' = tasks
  /\ Step("get_card", t, [index |-> index], {},
          [kind |-> "got", card |-> CardSearchStateManager_get_card(card_states, t, index)],
          <<"get_card", "return">>, CardsOf(card_states, t))
  /\ UNCHANGED <<request_context, deck_states>>

(* --------------------------- specifications ---------------------------- *)
StreamOutcomes == {"ok", "raise"}

(* StarterChatServer.respond puts the deck manager, and nothing else, into *)
(* the request context main.py creates as {"request": request}.            *)
ServerContext == {"request", "deck_manager"}

(* A caller of the tools that supplies both managers the tools look up.    *)
ToolsContext == {"request", "deck_manager", "card_search_manager"}

InitState ==
  /\ deck_states = [t \in {} |-> DefaultDeckState]
  /\ card_states = [t \in {} |-> DefaultCardSearchState]
  /\ tasks = [k \in Slots |-> Idle]
  /\ last = [op |-> "init", thread |-> 0, args |-> [none |-> TRUE], did |-> {},
             result |-> NoResult, log |-> <<>>, pre |-> NoPre]

Init == request_context = ServerContext /\ InitState

InitTools == request_context = ToolsContext /\ InitState

(* No coroutine is suspended: requests are served one after the other.    *)
Quiescent == \A k \in Slots : tasks[k] = Idle

(* The threads that concurrent requests are issued on.  A race needs two   *)
(* requests on one thread id; requests on different ids share no record.   *)
RaceThreads == {1}

(* The running server: the tools registered with the agent, the            *)
(* select_deck widget action and the deck-state endpoint, with requests    *)
(* running concurrently.                                                   *)
Next ==
  \/ \E t \in RaceThreads, d \in DeckIds, n \in DeckNames :
       SetActiveDeckToolStart(t, d, n)
  \/ \E k \in Slots, o \in RemoteOutcomes, s \in StreamOutcomes :
       SetActiveDeckToolResume(k, o, s)
  \/ \E t \in RaceThreads : GetActiveDeckTool(t)
  \/ \E t \in RaceThreads, d \in PayloadIds, n \in PayloadNames, s \in BOOLEAN :
       SelectDeckActionStart(t, d, n, s)
  \/ \E k \in Slots, o \in DeckListOutcomes : SelectDeckActionResume(k, o)
  \/ \E t \in RaceThreads : GetDeckStateStart(t)
  \/ \E k \in Slots, o \in RemoteOutcomes : GetDeckStateResume(k, o)
  \/ \E t \in RaceThreads : GetUserDecksToolStart(t)
  \/ \E k \in Slots, r \in UserDeckResponses, s \in StreamOutcomes :
       GetUserDecksToolResume(k, r, s)
  \/ \E t \in RaceThreads, q \in Queries : SearchCardsToolStart(t, q)
  \/ \E k \in Slots, r \in SearchResponses, s \in StreamOutcomes :
       SearchCardsToolResume(k, r, s)

Spec == Init /\ [][Next]_vars

(* The deck side of the tool layer and of DeckStateManager, every tool of  *)
(* tools/__init__.py included, called with both managers in the context    *)
(* and running concurrently.                                               *)
NextDeck ==
  \/ \E t \in RaceThreads, d \in DeckIds, n \in DeckNames :
       SetActiveDeckToolStart(t, d, n)
  \/ \E k \in Slots, o \in RemoteOutcomes, s \in StreamOutcomes :
       SetActiveDeckToolResume(k, o, s)
  \/ \E t \in RaceThreads : GetActiveDeckTool(t)
  \/ \E t \in RaceThreads, d \in PayloadIds : LoadDeckContentsToolStart(t, d)
  \/ \E k \in Slots, o \in RemoteOutcomes : LoadDeckContentsToolResume(k, o)
  \/ \E t \in RaceThreads, d \in PayloadIds, n \in PayloadNames, s \in BOOLEAN :
       SelectDeckActionStart(t, d, n, s)
  \/ \E k \in Slots, o \in DeckListOutcomes : SelectDeckActionResume(k, o)
  \/ \E t \in RaceThreads : GetDeckStateStart(t)
  \/ \E k \in Slots, o \in RemoteOutcomes : GetDeckStateResume(k, o)
  \/ \E t \in RaceThreads, d \in DeckIds, n \in DeckNames :
       ManagerSetActiveDeck(t, d, n)
  \/ \E t \in RaceThreads : ManagerClearActiveDeck(t)

SpecDeck == InitTools /\ [][NextDeck]_vars

(* The same operations called one after the other, on every thread: a      *)
(* call starts only when no coroutine is suspended.                        *)
NextDeckSeq ==
  \/ \E t \in Threads, d \in DeckIds, n \in DeckNames :
       Quiescent /\ SetActiveDeckToolStart(t, d, n)
  \/ \E k \in Slots, o \in RemoteOutcomes, s \in StreamOutcomes :
       SetActiveDeckToolResume(k, o, s)
  \/ \E t \in Threads : Quiescent /\ GetActiveDeckTool(t)
  \/ \E t \in Threads, d \in PayloadIds :
       Quiescent /\ LoadDeckContentsToolStart(t, d)
  \/ \E k \in Slots, o \in RemoteOutcomes : LoadDeckContentsToolResume(k, o)
  \/ \E t \in Threads, d \in PayloadIds, n \in PayloadNames, s \in BOOLEAN :
       Quiescent /\ SelectDeckActionStart(t, d, n, s)
  \/ \E k \in Slots, o \in DeckListOutcomes : SelectDeckActionResume(k, o)
  \/ \E t \in Threads : Quiescent /\ GetDeckStateStart(t)
  \/ \E k \in Slots, o \in RemoteOutcomes : GetDeckStateResume(k, o)
  \/ \E t \in Threads : Quiescent /\ GetUserDecksToolStart(t)
  \/ \E k \in Slots, r \in UserDeckResponses, s \in StreamOutcomes :
       GetUserDecksToolResume(k, r, s)
  \/ \E t \in Threads, d \in DeckIds, n \in DeckNames :
       Quiescent /\ ManagerSetActiveDeck(t, d, n)
  \/ \E t \in Threads : Quiescent /\ ManagerClearActiveDeck(t)

SpecDeckSeq == InitTools /\ [][NextDeckSeq]_vars

(* The card-search side of the tool layer and of CardSearchStateManager,   *)
(* likewise called one after the other on every thread.                    *)
NextCardsSeq ==
  \/ \E t \in Threads, q \in Queries : Quiescent /\ SearchCardsToolStart(t, q)
  \/ \E k \in Slots, r \in SearchResponses, s \in StreamOutcomes :
       SearchCardsToolResume(k, r, s)
  \/ \E t \in Threads, n \in CardIndexes :
       Quiescent /\ GetCardFromResultsTool(t, n)
  \/ \E t \in Threads, q \in Queries, c \in SeqsUpTo(CardDicts, MaxCards) :
       Quiescent /\ ManagerStoreResults(t, q, c)
  \/ \E t \in Threads, n \in CardIndexes : Quiescent /\ ManagerGetCard(t, n)

SpecCardsSeq == InitTools /\ [][NextCardsSeq]_vars

(* The card-search side with searches for one thread running concurrently: *)
(* a search may start while another is suspended at its remote call.       *)
NextCards ==
  \/ \E t \in RaceThreads, q \in Queries : SearchCardsToolStart(t, q)
  \/ \E k \in Slots, r \in SearchResponses, s \in StreamOutcomes :
       SearchCardsToolResume(k, r, s)
  \/ \E t \in RaceThreads, n \in CardIndexes : GetCardFromResultsTool(t, n)
  \/ \E t \in RaceThreads, q \in Queries, c \in SeqsUpTo(CardDicts, MaxCards) :
       ManagerStoreResults(t, q, c)
  \/ \E t \in RaceThreads, n \in CardIndexes : ManagerGetCard(t, n)

SpecCards == InitTools /\ [][NextCards]_vars

(* Deck and card operations together, on every thread.  A coroutine starts *)
(* when none is suspended; while it waits for its remote call the calls    *)
(* that do not wait run on any thread.  One deck, one query per caller and *)
(* pages with at most one item keep the two maps' contents small.          *)
NextBoth ==
  \/ \E t \in Threads :
       Quiescent /\ SetActiveDeckToolStart(t, MaxDeckId, "Mill Deck")
  \/ \E k \in Slots, o \in RemoteOutcomes :
       SetActiveDeckToolResume(k, o, "ok")
  \/ \E t \in Threads : GetActiveDeckTool(t)
  \/ \E t \in Threads, d \in {NoneId, MaxDeckId} :
       Quiescent /\ LoadDeckContentsToolStart(t, d)
  \/ \E k \in Slots : LoadDeckContentsToolResume(k, "ok")
  \/ \E t \in Threads, d \in {NoneId, MaxDeckId} :
       Quiescent /\ SelectDeckActionStart(t, d, "Mill Deck", TRUE)
  \/ \E k \in Slots : SelectDeckActionResume(k, "decks")
  \/ \E t \in Threads : Quiescent /\ GetDeckStateStart(t)
  \/ \E k \in Slots : GetDeckStateResume(k, "ok")
  \/ \E t \in Threads : ManagerSetActiveDeck(t, MaxDeckId, "Mill Deck")
  \/ \E t \in Threads : ManagerClearActiveDeck(t)
  \/ \E t \in Threads : Quiescent /\ SearchCardsToolStart(t, "Luke")
  \/ \E k \in Slots, r \in {x \in SearchResponses : Len(x.items) <= 1} :
       SearchCardsToolResume(k, r, "ok")
  \/ \E t \in Threads : GetCardFromResultsTool(t, 1)
  \/ \E t \in Threads, c \in SeqsUpTo(CardDicts, 1) :
       ManagerStoreResults(t, "Vader", c)
  \/ \E t \in Threads : ManagerGetCard(t, 1)

SpecBoth == InitTools /\ [][NextBoth]_vars

(* ------------------------------- claims -------------------------------- *)
ContentsMatchActive(t) ==
  \/ DeckOf(deck_states, t).deck_contents = NoneContents
  \/ DeckOf(deck_states, t).deck_contents.deck_id = DeckOf(deck_states, t).active_deck_id

(* C1: once the calls made on a thread have returned, a cached             *)
(* deck_contents snapshot belongs to the thread's active deck: it is       *)
(* absent, or its deck_id is the active_deck_id (so it is absent when no   *)
(* deck is active).  Refuted by load_deck_contents_tool called with an     *)
(* explicit deck id.                                                       *)
C1_ContentsBelongToActiveDeck ==
  Quiescent => \A t \in Threads : ContentsMatchActive(t)

(* C2: when two requests on one thread that were suspended at the remote   *)
(* deck fetch have both finished, the cached deck_contents is the snapshot *)
(* for the final active_deck_id, and the deck-state endpoint never stores  *)
(* contents fetched for a deck id that is no longer the active one.        *)
C2_RacesKeepContentsOfFinalDeck ==
  /\ Quiescent => \A t \in Threads : ContentsMatchActive(t)
  /\ (last.op = "get_deck_state" /\ "cache_contents" \in last.did)
       => ContentsMatchActive(last.thread)

(* C3: the stored results carry index i + 1 at (0-based) position i, and   *)
(* right after a store call they are exactly the records of that call's    *)
(* cards: as many as the cards, none left from an earlier search.          *)
C3_ResultsAreLatestAndIndexed ==
  /\ \A t \in DOMAIN card_states :
       \A p \in 1..Len(card_states[t].results) :
         card_states[t].results[p].index = (p - 1) + 1
  /\ "store_results" \in last.did =>
       LET res == CardsOf(card_states, last.thread).results
           cards == last.args.cards
       IN  /\ Len(res) = Len(cards)
           /\ \A p \in 1..Len(cards) :
                /\ res[p].ability = CardGet(cards[p], "name", "")
                /\ res[p].raw = CardGet(cards[p], "raw", "")

C3_Witness ==
  /\ "store_results" \in last.did
  /\ Len(last.pre.results) = 2
  /\ Len(last.args.cards) = 1
  /\ last.pre.results[1].ability # CardGet(last.args.cards[1], "name", "")

(* C4: after search_cards_tool returned "Found N card(s)" on a thread of   *)
(* the running server, get-card-by-index i on that thread yields the i-th  *)
(* card of the summary, for every i in 1..N.                               *)
C4_FoundCardsAreStored ==
  (last.op = "search_cards_tool" /\ last.result.kind = "found") =>
    \A i \in 1..last.result.count :
      LET card == CardSearchState_get_card_by_index(CardsOf(card_states, last.thread), i)
      IN  card # NoneCard /\ card.ability = last.result.names[i]

(* C5: after a search that completed without a remote error, the stored    *)
(* query and results are those of that search, a search that found zero    *)
(* cards included: then no card of an earlier search is retrievable.       *)
C5_StoredIsLatestCompletedSearch ==
  (last.op = "search_cards_tool" /\ last.result.kind \in {"found", "no_cards_found"}) =>
    LET st == CardsOf(card_states, last.thread)
        cards == last.args.cards
    IN  /\ st.query = last.args.query
        /\ Len(st.results) = Len(cards)
        /\ \A i \in 1..Len(cards) : st.results[i].ability = cards[i].name
        /\ cards = <<>> =>
             \A i \in CardIndexes : CardSearchState_get_card_by_index(st, i) = NoneCard

(* C6: get_card (get_card_by_index) returns the record at position i - 1,  *)
(* whose index field is i, for 1 <= i <= len(results), and None for 0,     *)
(* negative i and i > len(results), also when there are no results.        *)
C6_GetCardByIndex ==
  last.op = "get_card" =>
    LET res == CardsOf(card_states, last.thread).results
        i == last.args.index
    IN  IF 1 <= i /\ i <= Len(res)
        THEN last.result.card = res[i] /\ last.result.card.index = i
        ELSE last.result.card = NoneCard

C6_Witness ==
  /\ last.op = "get_card"
  /\ Len(CardsOf(card_states, last.thread).results) = 2
  /\ last.args.index = 2
  /\ last.result.card # NoneCard

(* C7: right after set_active_deck on a thread, its deck_contents is       *)
(* absent, whatever was cached and also when the deck id is unchanged.     *)
C7_SetActiveDeckClearsContents ==
  "set_active_deck" \in last.did =>
    DeckOf(deck_states, last.thread).deck_contents = NoneContents

C7_Witness ==
  /\ "set_active_deck" \in last.did
  /\ last.pre.deck_contents # NoneContents
  /\ last.pre.active_deck_id = last.args.deck_id
  /\ last.pre.deck_contents.deck_id = last.args.deck_id
  /\ DeckOf(deck_states, last.thread).active_deck_id = last.args.deck_id

(* C8: in every DeckState, active_deck_name is present (not None) iff      *)
(* active_deck_id is present (not None).                                   *)
C8_NamePresentIffIdPresent ==
  \A t \in DOMAIN deck_states :
    (deck_states[t].active_deck_name # NoneName)
      <=> (deck_states[t].active_deck_id # NoneId)

C8_Witness ==
  \E t \in DOMAIN deck_states :
    /\ deck_states[t].active_deck_id = 0
    /\ deck_states[t].active_deck_name = ""
    /\ deck_states[t].deck_contents # NoneContents

(* C9: when set_active_deck_tool returns its confirmation and nothing was  *)
(* interleaved, the thread holds the deck id, the name and the snapshot    *)
(* fetched for that id, and the tool went: set active deck, remote fetch,  *)
(* cache contents, deck_refresh effect, return.                            *)
C9_SetActiveDeckToolResult ==
  (last.op = "set_active_deck_tool" /\ last.result.kind = "active_deck_set") =>
    LET st == DeckOf(deck_states, last.thread)
    IN  /\ last.result = SetConfirmation(last.args.deck_id, last.args.deck_name)
        /\ st.active_deck_id = last.args.deck_id
        /\ st.active_deck_name = last.args.deck_name
        /\ st.deck_contents \in
             {fetch_deck_contents(last.args.deck_id, o) : o \in RemoteOutcomes}
        /\ last.log = <<"set_active_deck", "fetch_deck_contents",
                        "cache_contents", "deck_refresh", "return">>

C9_Witness ==
  /\ last.op = "set_active_deck_tool"
  /\ last.result.kind = "active_deck_set"
  /\ DeckOf(deck_states, last.thread).deck_contents.error = NoneError
  /\ last.args.deck_id = 1

SelectDeckDone ==
  /\ last.op = "select_deck"
  /\ last.result.kind = "events"
  /\ Head(last.log) = "set_active_deck"

(* C10 as claimed: when the select_deck handler has finished for a valid   *)
(* payload, the deck state is the one set_active_deck_tool leaves for the  *)
(* same id and name: id, name and the fetched, cached deck_contents.       *)
C10_SelectDeckLeavesToolState ==
  SelectDeckDone =>
    LET st == DeckOf(deck_states, last.thread)
    IN  /\ st.active_deck_id = last.args.deck_id
        /\ st.active_deck_name = last.args.deck_name
        /\ st.deck_contents \in
             {fetch_deck_contents(last.args.deck_id, o) : o \in RemoteOutcomes}

(* C10 as amended: when the select_deck handler has finished for a valid   *)
(* payload and nothing was interleaved, active_deck_id and                 *)
(* active_deck_name are those set_active_deck_tool leaves for the same id  *)
(* and name, and deck_contents is absent: the handler fetches no contents. *)
C10_SelectDeckSetsIdAndName ==
  SelectDeckDone =>
    LET st == DeckOf(deck_states, last.thread)
    IN  /\ st.active_deck_id = last.args.deck_id
        /\ st.active_deck_name = last.args.deck_name
        /\ st.deck_contents = NoneContents

C10_Witness ==
  /\ SelectDeckDone
  /\ Len(last.log) = 5
  /\ last.args.deck_id = 1

(* C11: a failed remote deck fetch leaves the thread's deck state          *)
(* untouched: no deck_contents stored on a thread is the empty snapshot    *)
(* that carries the fetch's error.  Refuted by set_active_deck_tool and    *)
(* by the deck-state endpoint, which cache whatever the fetch returned.    *)
C11_ErrorSnapshotNeverStored ==
  \A t \in DOMAIN deck_states :
    deck_states[t].deck_contents # NoneContents
      => deck_states[t].deck_contents.error = NoneError

(* C12: when the card search request raises, search_cards_direct returns   *)
(* no cards, count 0 and an error; search_cards_tool replies with that     *)
(* error, streams no widget, and the stored query and results of every     *)
(* thread stay what they were when the tool was called.                    *)
C12_FailedSearchLeavesResults ==
  [][(last'.op = "search_cards_tool" /\ last'.result # NoResult
        /\ last'.args.transport = "fail")
     => /\ last'.args.cards = <<>>
        /\ last'.result.kind = "error"
        /\ last'.result.error # NoneError
        /\ \A r \in SearchResponses :
             r.transport = "fail" =>
               LET res == search_cards_direct(last'.args.query, r)
               IN  /\ res.cards = <<>> /\ res.count = 0
                   /\ res.error = last'.result.error
        /\ last'.log = <<"search_cards_direct", "return">>
        /\ card_states' = card_states]_vars

C12_Witness ==
  /\ last.op = "search_cards_tool"
  /\ last.result.kind = "error"
  /\ last.args.transport = "fail"
  /\ Len(CardsOf(card_states, last.thread).results) = 2
  /\ CardsOf(card_states, last.thread).query # last.args.query

(* C13 as claimed: for every answer of the deck API fetch_user_decks and   *)
(* fetch_deck_contents return a record whose data is empty whenever its    *)
(* error is set, a failed request sets the error, and get_user_decks_tool  *)
(* and load_deck_contents_tool then both reply "Error: <message>".         *)
C13_RemoteErrorsReplyErrorText ==
  /\ \A r \in UserDeckResponses :
       LET res == fetch_user_decks(r)
       IN  /\ r.transport = "fail" => res.error # NoneError
           /\ res.error # NoneError => res.decks = <<>> /\ res.count = 0
  /\ \A d \in DeckIds, o \in RemoteOutcomes :
       LET res == fetch_deck_contents(d, o)
       IN  /\ o = "fail" => res.error # NoneError
           /\ res.error # NoneError => res.body = "empty"
  /\ (last.op = "get_user_decks_tool" /\ last.result # NoResult
        /\ last.args.transport = "fail")
       => last.result
            = ErrorReply(ErrorPrefix,
                         fetch_user_decks([transport |-> "fail", n |-> 0]).error)
  /\ (last.op = "load_deck_contents_tool" /\ last.result.kind = "error")
       => last.result
            = ErrorReply(ErrorPrefix,
                         fetch_deck_contents(last.args.deck_id, "fail").error)

(* C13 as amended: the same, but load_deck_contents_tool replies with the  *)
(* cross mark followed by the message, not with "Error: <message>".        *)
C13_RemoteErrorsReplyTheMessage ==
  /\ \A r \in UserDeckResponses :
       LET res == fetch_user_decks(r)
       IN  /\ r.transport = "fail" => res.error # NoneError
           /\ res.error # NoneError => res.decks = <<>> /\ res.count = 0
  /\ \A d \in DeckIds, o \in RemoteOutcomes :
       LET res == fetch_deck_contents(d, o)
       IN  /\ o = "fail" => res.error # NoneError
           /\ res.error # NoneError => res.body = "empty"
  /\ (last.op = "get_user_decks_tool" /\ last.result # NoResult
        /\ last.args.transport = "fail")
       => last.result
            = ErrorReply(ErrorPrefix,
                         fetch_user_decks([transport |-> "fail", n |-> 0]).error)
  /\ (last.op = "load_deck_contents_tool" /\ last.result.kind = "error")
       => last.result
            = ErrorReply(CrossMark,
                         fetch_deck_contents(last.args.deck_id, "fail").error)

C13_Witness ==
  /\ last.op = "load_deck_contents_tool"
  /\ last.result.kind = "error"
  /\ last.args.deck_id = 1
  /\ DeckOf(deck_states, last.thread).active_deck_id = 1

(* C14: clear_active_deck returns the confirmation naming the deck that    *)
(* was active iff the thread had an active deck before the call, the       *)
(* "No active deck was set." message otherwise, and leaves all three deck  *)
(* fields absent.  Refuted by an active deck whose name is empty.          *)
C14_ClearReportsPreviousDeck ==
  last.op = "clear_active_deck" =>
    /\ DeckOf(deck_states, last.thread) = DefaultDeckState
    /\ IF last.pre.active_deck_id # NoneId
       THEN last.result = [kind |-> "cleared",
                           deck_name |-> last.pre.active_deck_name]
       ELSE last.result = [kind |-> "no_active_deck_was_set"]

(* C15: the stored query and results of a thread change only in a step     *)
(* that stores one search's results, and after that step they are that     *)
(* search's query together with the records of all of that search's cards, *)
(* also when two searches for the thread interleave at their remote calls. *)
C15_ResultsReplacedAtomically ==
  [][\A t \in Threads :
       CardsOf(card_states', t) # CardsOf(card_states, t) =>
         /\ "store_results" \in last'.did
         /\ last'.thread = t
         /\ card_states'[t].query = last'.args.query
         /\ Len(card_states'[t].results) = Len(last'.args.cards)
         /\ \A p \in 1..Len(last'.args.cards) :
              /\ card_states'[t].results[p].index = p
              /\ card_states'[t].results[p].ability
                   = CardGet(last'.args.cards[p], "name", "")]_vars

C15_Witness ==
  /\ last.op = "search_cards_tool"
  /\ "store_results" \in last.did
  /\ last.pre.query \notin {NoneQuery, last.args.query}
  /\ \E k \in Slots :
       /\ tasks[k] # Idle
       /\ tasks[k].op = "search_cards_tool"
       /\ tasks[k].thread = last.thread
       /\ tasks[k].args.query # last.args.query

(* C16 as claimed: the reply of get_user_decks_tool lists min(n, 10) decks *)
(* and ends with the line "...and (n - 10) more" exactly when n > 10.      *)
C16_SummaryListsTenDecks ==
  (last.op = "get_user_decks_tool" /\ last.result.kind = "found_decks") =>
    LET n == last.args.n
        lines == last.result.lines
        deckLines == SelectSeq(lines, LAMBDA l : l.type = "deck")
    IN  /\ Len(deckLines) = IF n > 10 THEN 10 ELSE n
        /\ n > 10 => lines[Len(lines)] = [type |-> "more", count |-> n - 10]
        /\ n <= 10 => \A i \in 1..Len(lines) : lines[i].type # "more"

(* C16 as amended: the reply of get_user_decks_tool is the one line        *)
(* "Found n deck list(s)." for every n >= 1, without deck lines and        *)
(* without a suffix; all n decks are in the streamed widget and its copy   *)
(* text, none is cut off.                                                  *)
C16_ReplyIsCountOnly ==
  (last.op = "get_user_decks_tool" /\ last.result.kind = "found_decks") =>
    LET n == last.args.n
    IN  /\ n >= 1
        /\ last.result.lines = <<[type |-> "found", count |-> n]>>
        /\ Cardinality(last.result.widget.decks) = n
        /\ last.result.widget.count = n
        /\ Len(last.result.copy_text) = n

C16_Witness ==
  /\ last.op = "get_user_decks_tool"
  /\ last.result.kind = "found_decks"
  /\ last.args.n = 12

(* C17: the select_deck action is rejected with the one plain-text message *)
(* exactly when its payload lacks deck_id or deck_name; then nothing else  *)
(* is emitted, no remote call is made and the deck state is not changed.   *)
(* Refuted by a payload with deck id 0 (or the empty name).                *)
C17_OnlyMissingPayloadRejected ==
  last.op = "select_deck" =>
    LET missing == last.args.deck_id = NoneId \/ last.args.deck_name = NoneName
        rejected == Head(last.log) = "error_message"
    IN  /\ rejected <=> missing
        /\ rejected =>
             /\ last.result.kind = "events"
             /\ Len(last.result.events) = 1
             /\ last.result.events[1].type = "message"
             /\ last.log = <<"error_message", "return">>
             /\ last.did = {}

(* C18: no tool lets an exception out: a raise inside a tool, such as one  *)
(* of the widget / effect streaming call, ends in an "Error: ..." reply.   *)
(* Refuted by set_active_deck_tool, which has no try block.                *)
C18_ToolExceptionsCaught ==
  last.op \in {"search_cards_tool", "get_user_decks_tool",
               "get_card_from_results_tool", "set_active_deck_tool",
               "get_active_deck_tool", "load_deck_contents_tool"}
    => last.result # Exception

(* C19: when the select_deck handler has finished for a valid payload, the *)
(* active deck was set first; the events are one replace event, iff a      *)
(* sender came along and the refetched deck list is not empty, carrying    *)
(* the sender's item and a widget highlighting the deck just set, and then *)
(* one confirmation message as the last event, also when the refetch       *)
(* failed; the deck set is kept.                                           *)
C19_SelectDeckEvents ==
  SelectDeckDone =>
    LET ev == last.result.events
        replace == last.args.sender /\ last.args.decks = "decks"
    IN  /\ Head(last.log) = "set_active_deck"
        /\ ev[Len(ev)] = [type |-> "message",
                          text |-> SetConfirmation(last.args.deck_id,
                                                   last.args.deck_name)]
        /\ Len(ev) = IF replace THEN 2 ELSE 1
        /\ replace =>
             /\ ev[1].type = "replaced"
             /\ ev[1].item = SenderItem
             /\ ev[1].widget.active_deck_id = last.args.deck_id
             /\ ev[1].widget.active_deck_name = last.args.deck_name
             /\ \A row \in ev[1].widget.decks :
                  row.is_active <=> row.id = last.args.deck_id
        /\ DeckOf(deck_states, last.thread).active_deck_id = last.args.deck_id
        /\ DeckOf(deck_states, last.thread).active_deck_name = last.args.deck_name

C19_Witness ==
  /\ SelectDeckDone
  /\ Len(last.result.events) = 2
  /\ \E row \in last.result.events[1].widget.decks : row.is_active
  /\ \E row \in last.result.events[1].widget.decks : ~row.is_active

(* C20: a read of the deck-state endpoint makes the remote fetch iff the   *)
(* thread has an active deck and no contents cached; without the fetch it  *)
(* returns the three fields as stored, and all three absent when no deck   *)
(* is active.  Refuted by an active deck with id 0.                        *)
C20_LazyFetchIffActiveAndUncached ==
  last.op = "get_deck_state" =>
    LET state == last.args
        fetched == \E i \in 1..Len(last.log) : last.log[i] = "fetch_deck_contents"
    IN  /\ fetched <=> (state.active_deck_id # NoneId
                         /\ state.deck_contents = NoneContents)
        /\ ~fetched => last.result = [kind |-> "deck_state", state |-> state]
        /\ state.active_deck_id = NoneId => state = DefaultDeckState

(* C21: a step taken for thread t leaves the deck and card records of      *)
(* every other thread as they were; a card-search operation leaves the     *)
(* deck map unchanged and a deck operation the card-search map; a step     *)
(* that only queries changes no record and at most inserts the default     *)
(* record for t; no record is ever removed.                                *)
C21_ThreadIsolation ==
  [][LET t == last'.thread
         cardOps == {"search_cards_tool", "get_card_from_results_tool",
                     "store_results", "get_card"}
     IN  /\ DOMAIN deck_states \subseteq DOMAIN deck_states'
         /\ DOMAIN card_states \subseteq DOMAIN card_states'
         /\ \A u \in Threads \ {t} :
              /\ u \in DOMAIN deck_states' <=> u \in DOMAIN deck_states
              /\ u \in DOMAIN card_states' <=> u \in DOMAIN card_states
              /\ u \in DOMAIN deck_states => deck_states'[u] = deck_states[u]
              /\ u \in DOMAIN card_states => card_states'[u] = card_states[u]
         /\ last'.op \in cardOps => deck_states' = deck_states
         /\ last'.op \notin cardOps => card_states' = card_states
         /\ last'.did = {} =>
              /\ \A u \in DOMAIN deck_states : deck_states'[u] = deck_states[u]
              /\ \A u \in DOMAIN card_states : card_states'[u] = card_states[u]
              /\ \A u \in DOMAIN deck_states' \ DOMAIN deck_states :
                   u = t /\ deck_states'[u] = DefaultDeckState
              /\ \A u \in DOMAIN card_states' \ DOMAIN card_states :
                   u = t /\ card_states'[u] = DefaultCardSearchState]_vars

C21_Witness ==
  /\ last.thread = 2
  /\ "set_active_deck" \in last.did
  /\ last.pre.deck_contents # NoneContents
  /\ DeckOf(deck_states, 1).deck_contents # NoneContents
  /\ CardsOf(card_states, 1).results # <<>>
  /\ CardsOf(card_states, 2).results # <<>>
  /\ \E k \in Slots : tasks[k] # Idle /\ tasks[k].thread = 1

(* C22: the components agree on whether a thread has an active deck, deck  *)
(* id 0 included: get_active_deck_tool says "no active deck" and           *)
(* load_deck_contents_tool without a deck id answers "No active deck set"  *)
(* only when has_active_deck is false, and the deck-state endpoint returns *)
(* without a fetch and without contents only when no deck is active.       *)
(* Refuted by deck id 0.                                                   *)
C22_ComponentsAgreeOnActiveDeck ==
  LET st == DeckOf(deck_states, last.thread)
  IN  /\ (last.op = "get_active_deck_tool" /\ last.result.kind = "no_active_deck")
           => ~DeckState_has_active_deck(st)
      /\ (last.op = "get_active_deck_tool" /\ last.result.kind = "active_deck")
           => DeckState_has_active_deck(st) /\ last.result.deck_id = st.active_deck_id
      /\ (last.op = "load_deck_contents_tool"
            /\ last.result.kind = "no_active_deck_set")
           => ~DeckState_has_active_deck(st)
      /\ (last.op = "get_deck_state" /\ last.result.kind = "deck_state"
            /\ last.result.state.deck_contents = NoneContents)
           => ~DeckState_has_active_deck(last.args)

(* C23: get_card_from_results_tool answers "no search results" when the    *)
(* thread has no stored results, "not found" with the stored count (the    *)
(* valid range being 1..count) when results exist and the number is        *)
(* outside 1..count, and otherwise the ability of the stored card whose    *)
(* index is the number; the stored query and results stay as they were.    *)
C23_GetCardToolOutcomes ==
  [][(last'.op = "get_card_from_results_tool"
        /\ "card_search_manager" \in request_context)
     => LET st == CardsOf(card_states, last'.thread)
            n == last'.args.card_number
            count == Len(st.results)
        IN  /\ CardsOf(card_states', last'.thread) = st
            /\ \A u \in DOMAIN card_states : card_states'[u] = card_states[u]
            /\ IF count = 0
               THEN last'.result = [kind |-> "no_search_results"]
               ELSE IF n < 1 \/ n > count
               THEN last'.result = [kind |-> "card_not_found", card_number |-> n,
                                    count |-> count]
               ELSE /\ last'.result.kind = "card"
                    /\ last'.result.index = n
                    /\ \E p \in 1..count :
                         /\ st.results[p].index = n
                         /\ last'.result.ability = st.results[p].ability]_vars

C23_Witness ==
  /\ last.op = "get_card_from_results_tool"
  /\ last.result.kind = "card"
  /\ last.result.index = 2
  /\ Len(CardsOf(card_states, last.thread).results) = 2
  /\ CardsOf(card_states, last.thread).results[1].ability # last.result.ability

====
